---- MODULE Spec2Model ----
(***************************************************************************)
(* Model of src/core/paths.ts (MakerJs.paths): the constructors of Arc,    *)
(* Circle, Parallel and BezierSeed.                                        *)
(*                                                                         *)
(* Representation.                                                         *)
(*  - A point is a pair <<x, y>> of integers; NoPoint (the empty tuple)    *)
(*    stands for a missing point (JavaScript undefined / null).            *)
(*  - An object is a function from the names of the fields that have been  *)
(*    assigned to their values; a field that was never assigned is not in  *)
(*    its DOMAIN.                                                          *)
(*  - An argument is a tagged value [k |-> kind, v |-> value]; args[i] of  *)
(*    the source is args[i + 1] here (TLA+ sequences start at 1).          *)
(*  - Angles are whole degrees.  Only the eight compass directions have a  *)
(*    whole-degree angle on the integer grid, so the inputs are restricted *)
(*    to those whose angles are compass directions; on these the           *)
(*    arithmetic is exact.                                                 *)
(*  - A length (a radius, a value of measure.pointDistance) is carried as  *)
(*    its square, an integer; equality and order of lengths are equality   *)
(*    and order of their squares.  The signed offset of Parallel is a      *)
(*    plain integer.                                                       *)
(***************************************************************************)
EXTENDS Integers, Sequences, FiniteSets, TLC

VARIABLES pc, op, args, this, env, heap

vars == <<pc, op, args, this, env, heap>>

\* ------------------------------------------------------------------ bounds

\* Input points have coordinates in -G .. G.
G == 2

\* Squared radii given to the constructors range over 1 .. RSqMax.
RSqMax == 8

\* The signed offset of Parallel ranges over -DMax .. DMax.
DMax == 2

Coord == (0 - G) .. G

Points == {<<x, y>> : x \in Coord, y \in Coord}

\* ------------------------------------------------------------------ values

NoPoint == <<>>

\* IEEE not-a-number: every comparison with it is false, every sum is NaN.
NaN == -1000000

Pt(p) == [k |-> "pt", v |-> p]

Num(n) == [k |-> "num", v |-> n]

Bool(b) == [k |-> "bool", v |-> b]

Arr(s) == [k |-> "arr", v |-> s]

Ref(r) == [k |-> "ref", v |-> r]

isPoint(a) == a.k = "pt"

\* JavaScript truthiness of args[i - 1]; a missing argument is undefined.
Truthy(a, i) == i <= Len(a) /\ a[i].k = "bool" /\ a[i].v

EmptyObj == <<>>

Set(obj, f, v) == (f :> v) @@ obj

Has(obj, f) == f \in DOMAIN obj

Lt(a, b) == a # NaN /\ b # NaN /\ a < b

Plus(a, b) == IF a = NaN \/ b = NaN THEN NaN ELSE a + b

Minus(a, b) == IF a = NaN \/ b = NaN THEN NaN ELSE a - b

\* How the geometry utilities treat a missing point argument: they throw,
\* they read it as the zero vector, or they produce NaN.
Policies == {"throw", "zero", "nan"}

\* ------------------------------------------------------- geometry utilities

DistSq(p, q) == (p[1] - q[1]) * (p[1] - q[1]) + (p[2] - q[2]) * (p[2] - q[2])

IsCompass(dx, dy) ==
    IF dx = 0 /\ dy = 0 THEN FALSE
    ELSE (dx = 0 \/ dy = 0 \/ dx = dy \/ dx = 0 - dy) = TRUE

angleOfVector(dx, dy) ==
    CASE dx > 0 /\ dy = 0 -> 0
      [] dx > 0 /\ dy = dx -> 45
      [] dx = 0 /\ dy > 0 -> 90
      [] dx < 0 /\ dy = 0 - dx -> 135
      [] dx < 0 /\ dy = 0 -> 180
      [] dx < 0 /\ dy = dx -> 225
      [] dx = 0 /\ dy < 0 -> 270
      [] dx > 0 /\ dy = 0 - dx -> 315

\* The origin a utility computes from: a missing one is read as zero.
OrZero(p) == IF p = NoPoint THEN <<0, 0>> ELSE p

\* angle.ofPointInDegrees(origin, point): degrees in [0, 360).
ofPointInDegrees(origin, p, policy) ==
    IF origin = NoPoint /\ policy # "zero"
    THEN NaN
    ELSE angleOfVector(p[1] - OrZero(origin)[1], p[2] - OrZero(origin)[2])

\* measure.pointDistance(a, b), as its square.
pointDistance(a, b, policy) ==
    IF a = NoPoint /\ policy # "zero" THEN NaN ELSE DistSq(OrZero(a), b)

\* point.average(a, b): the midpoint.
pointAverage(a, b) == <<(a[1] + b[1]) \div 2, (a[2] + b[2]) \div 2>>

MidOk(a, b) == (a[1] + b[1]) % 2 = 0 /\ (a[2] + b[2]) % 2 = 0

\* A line object, as the Line constructor builds it.
Line(origin, end) == [type |-> "Line", origin |-> origin, end |-> end]

\* point.middle(line): the midpoint of the line's endpoints.
pointMiddle(line) == pointAverage(line.origin, line.end)

cosDeg(a) == CASE a % 360 = 0 -> 1 [] a % 360 = 90 -> 0
               [] a % 360 = 180 -> -1 [] a % 360 = 270 -> 0

sinDeg(a) == CASE a % 360 = 0 -> 0 [] a % 360 = 90 -> 1
               [] a % 360 = 180 -> 0 [] a % 360 = 270 -> -1

\* A point turned by a multiple of 90 degrees about a pivot.
rotatePoint(p, a, c) ==
    << c[1] + (p[1] - c[1]) * cosDeg(a) - (p[2] - c[2]) * sinDeg(a),
       c[2] + (p[1] - c[1]) * sinDeg(a) + (p[2] - c[2]) * cosDeg(a) >>

\* path.rotate(line, angleInDegrees, rotationOrigin) of a line.
pathRotate(line, a, c) ==
    Line(rotatePoint(line.origin, a, c), rotatePoint(line.end, a, c))

Abs(n) == IF n < 0 THEN 0 - n ELSE n

Sgn(n) == IF n < 0 THEN -1 ELSE 1

Cross(l) == l.origin[1] * l.end[2] - l.origin[2] * l.end[1]

SlopeDen(l1, l2) ==
    (l1.origin[1] - l1.end[1]) * (l2.origin[2] - l2.end[2])
  - (l1.origin[2] - l1.end[2]) * (l2.origin[1] - l2.end[1])

SlopeNumX(l1, l2) ==
    Cross(l1) * (l2.origin[1] - l2.end[1]) - (l1.origin[1] - l1.end[1]) * Cross(l2)

SlopeNumY(l1, l2) ==
    Cross(l1) * (l2.origin[2] - l2.end[2]) - (l1.origin[2] - l1.end[2]) * Cross(l2)

\* point.fromSlopeIntersection(line1, line2): where the two lines' infinite
\* extensions meet, or nothing when they are parallel.
fromSlopeIntersection(l1, l2) ==
    LET den == SlopeDen(l1, l2)
    IN  IF den = 0 THEN NoPoint
        ELSE << (SlopeNumX(l1, l2) * Sgn(den)) \div Abs(den),
                (SlopeNumY(l1, l2) * Sgn(den)) \div Abs(den) >>

\* The meeting point, when there is one, is a grid point.
SlopeOk(l1, l2) ==
    LET den == SlopeDen(l1, l2)
    IN  IF den = 0 THEN TRUE
        ELSE /\ (SlopeNumX(l1, l2) * Sgn(den)) % Abs(den) = 0
             /\ (SlopeNumY(l1, l2) * Sgn(den)) % Abs(den) = 0

\* The integers whose square is at most r.
Roots(r) == { m \in (0 - r) .. r : m * m <= r }

\* The points at squared distance c1.radius from c1.origin and c2.radius
\* from c2.origin.
CirclePoints(c1, c2) ==
    { p \in { <<c1.origin[1] + dx, c1.origin[2] + dy>> :
                dx \in Roots(c1.radius), dy \in Roots(c1.radius) } :
        DistSq(p, c1.origin) = c1.radius /\ DistSq(p, c2.origin) = c2.radius }

LexLess(p, q) == p[1] < q[1] \/ (p[1] = q[1] /\ p[2] < q[2])

\* path.intersection(circle1, circle2): nothing when the circles do not
\* meet, else the points where they do, in either order.
intersection(c1, c2, swap) ==
    LET S == CirclePoints(c1, c2)
        lo == CHOOSE p \in S : \A q \in S : p = q \/ LexLess(p, q)
        hi == CHOOSE p \in S : \A q \in S : p = q \/ LexLess(q, p)
    IN  IF S = {} THEN [found |-> FALSE, intersectionPoints |-> <<>>]
        ELSE IF Cardinality(S) = 1
             THEN [found |-> TRUE, intersectionPoints |-> <<lo>>]
             ELSE [found |-> TRUE,
                   intersectionPoints |-> IF swap THEN <<hi, lo>> ELSE <<lo, hi>>]

\* Two circles of squared radius r about distinct points a and b meet in no
\* point, in the midpoint of a and b, or in two points; the cases whose points
\* are grid points.
IntersectionOk(a, b, r) ==
    IF a = b THEN FALSE
    ELSE IF 4 * r < DistSq(a, b) THEN TRUE
    ELSE IF 4 * r = DistSq(a, b) THEN MidOk(a, b)
    ELSE Cardinality(CirclePoints([origin |-> a, radius |-> r],
                                  [origin |-> b, radius |-> r])) = 2

\* measure.isBetweenArcAngles(angleInQuestion, arc, flag): whether the angle
\* lies in the arc's span, counter-clockwise from its start angle to its end
\* angle.  exclusive tells whether the end angles are left out.
isBetweenArcAngles(a, arc, exclusive) ==
    IF a = NaN \/ arc.startAngle = NaN \/ arc.endAngle = NaN THEN FALSE
    ELSE LET span == (arc.endAngle - arc.startAngle) % 360
             off  == (a - arc.startAngle) % 360
         IN  IF exclusive THEN 0 < off /\ off < span ELSE off <= span

\* ------------------------------------------------------------ constructors

\* What a constructor body leaves: the object, and whether it threw.
Ret(obj, threw) == [obj |-> obj, threw |-> threw]

\* The perpendicular bisectors of Circle's three-point case, in the order
\* the loop "for (var i = 2; i--;)" pushes them.
circlePerpendiculars(a) ==
    LET lines == << Line(a[1].v, a[2].v), Line(a[2].v, a[3].v) >>
    IN  << pathRotate(lines[2], 90, pointMiddle(lines[2])),
           pathRotate(lines[1], 90, pointMiddle(lines[1])) >>

\* The Circle constructor, run on self with the arguments a.
CircleCtor(self, a, policy) ==
    LET t == Set(self, "type", "Circle")
    IN  IF Len(a) = 2
        THEN IF a[2].k = "num"
             THEN Ret(Set(Set(t, "origin", a[1].v), "radius", a[2].v), FALSE)
             ELSE LET o == pointAverage(a[1].v, a[2].v)
                  IN  Ret(Set(Set(t, "origin", o), "radius",
                              pointDistance(o, a[1].v, policy)), FALSE)
        ELSE LET perp == circlePerpendiculars(a)
                 o == fromSlopeIntersection(perp[1], perp[2])
             IN  IF o = NoPoint /\ policy = "throw"
                 THEN Ret(Set(t, "origin", o), TRUE)
                 ELSE Ret(Set(Set(t, "origin", o), "radius",
                              pointDistance(o, a[1].v, policy)), FALSE)

\* origins.intersectionPoints[i - 1]: reading past the end gives undefined.
pointAt(pts, i) == IF i <= Len(pts) THEN pts[i] ELSE NoPoint

\* The candidate span without the "endAngle += 360" of a wrapped end angle.
arcSpanNoWrap(origin, a, clockwise, policy) ==
    LET startAngle == ofPointInDegrees(origin, a[IF clockwise THEN 2 ELSE 1].v, policy)
        endAngle   == ofPointInDegrees(origin, a[IF clockwise THEN 1 ELSE 2].v, policy)
    IN  [origin |-> origin, startAngle |-> startAngle, endAngle |-> endAngle,
         size |-> Minus(endAngle, startAngle)]

\* One candidate span of the SVG-style arc.
arcSpan(origin, a, clockwise, policy) ==
    LET startAngle == ofPointInDegrees(origin, a[IF clockwise THEN 2 ELSE 1].v, policy)
        endAngle0  == ofPointInDegrees(origin, a[IF clockwise THEN 1 ELSE 2].v, policy)
        endAngle   == IF Lt(endAngle0, startAngle) THEN Plus(endAngle0, 360)
                      ELSE endAngle0
    IN  [origin |-> origin, startAngle |-> startAngle, endAngle |-> endAngle,
         size |-> Minus(endAngle, startAngle)]

\* The insertion that always pushes, leaving the spans unsorted.
insertSpanPush(spans, span) == Append(spans, span)

\* "insert sorted by size ascending".
insertSpan(spans, span) ==
    IF Len(spans) = 0 \/ Lt(spans[1].size, span.size)
    THEN Append(spans, span)
    ELSE <<span>> \o spans

\* The loop "for (var i = 2; i--;)" over origins.intersectionPoints.
arcSpans(pts, a, clockwise, policy) ==
    insertSpan(insertSpan(<<>>, arcSpan(pointAt(pts, 2), a, clockwise, policy)),
               arcSpan(pointAt(pts, 1), a, clockwise, policy))

\* "var index = largeArc ? 1 : 0", as a position of a TLA+ sequence.
spanIndex(largeArc) == IF largeArc THEN 2 ELSE 1

\* Arc, case 5: SVG style arc designation.
ArcSvg(self, a, e) ==
    LET t == Set(self, "radius", a[3].v)
        origins == intersection(
                       CircleCtor(EmptyObj, <<a[1], Num(t.radius)>>, e.policy).obj,
                       CircleCtor(EmptyObj, <<a[2], Num(t.radius)>>, e.policy).obj,
                       e.swap)
        pts == origins.intersectionPoints
        span == arcSpans(pts, a, Truthy(a, 5), e.policy)[spanIndex(Truthy(a, 4))]
    IN  IF ~origins.found THEN Ret(t, FALSE)
        ELSE IF Len(pts) < 2 /\ e.policy = "throw" THEN Ret(t, TRUE)
        ELSE Ret(Set(Set(Set(t, "origin", span.origin),
                         "startAngle", span.startAngle),
                     "endAngle", span.endAngle), FALSE)

\* Arc, case 4.
ArcDirect(self, a) ==
    Set(Set(Set(Set(self, "origin", a[1].v), "radius", a[2].v),
            "startAngle", a[3].v), "endAngle", a[4].v)

\* What the third parameter of measure.isBetweenArcAngles means: the source
\* passes false; it is read as "exclusive" or as "include the end angles".
betweenExclusive(flag, e) == IF e.thirdIsExclusive THEN flag ELSE ~flag

\* The three-point case without the swap of the start and end angles.
ArcThreePointAnglesNoSwap(self, a, e) ==
    LET angles == [i \in 1 .. 3 |-> ofPointInDegrees(self.origin, a[i].v, e.policy)]
    IN  Set(Set(self, "startAngle", angles[1]), "endAngle", angles[3])

\* Arc, case 3 from 3 points, after Circle.apply(this, args).
ArcThreePointAngles(self, a, e) ==
    LET angles == [i \in 1 .. 3 |-> ofPointInDegrees(self.origin, a[i].v, e.policy)]
        t == Set(Set(self, "startAngle", angles[1]), "endAngle", angles[3])
    IN  IF ~isBetweenArcAngles(angles[2], t, betweenExclusive(FALSE, e))
        THEN Set(Set(t, "startAngle", angles[3]), "endAngle", angles[1])
        ELSE t

\* Arc, case 2 (and case 3 falling through), after Circle.call(this, ...).
ArcTwoPointAngles(self, a, e) ==
    LET clockwise == Truthy(a, 3)
    IN  Set(Set(self, "startAngle",
                ofPointInDegrees(self.origin, a[IF clockwise THEN 2 ELSE 1].v, e.policy)),
            "endAngle",
            ofPointInDegrees(self.origin, a[IF clockwise THEN 1 ELSE 2].v, e.policy))

ArcIsThreePoints(a) == Len(a) = 3 /\ isPoint(a[3])

\* The argument shapes whose case calls the Circle constructor on this.
ArcUsesCircle(a) == Len(a) = 2 \/ Len(a) = 3

\* The arguments the Arc constructor hands to the Circle constructor.
ArcCircleArgs(a) == IF ArcIsThreePoints(a) THEN a ELSE <<a[1], a[2]>>

\* The constructor without its last assignment.
ArcTagNone(self) == self

\* "do this after Circle.apply / Circle.call to make sure this is an arc".
ArcTag(self) == Set(self, "type", "Arc")

\* point.clone(p): a copy of the point's value.
pointClone(p) == <<p[1], p[2]>>

\* point.add(a, b).
pointAdd(a, b) == <<a[1] + b[1], a[2] + b[2]>>

\* point.subtract(a, b).
pointSubtract(a, b) == <<a[1] - b[1], a[2] - b[2]>>

\* angle.ofLineInDegrees(line): the angle of the line's direction.
ofLineInDegrees(line) ==
    angleOfVector(line.end[1] - line.origin[1], line.end[2] - line.origin[2])

\* angle.toRadians(degrees): degrees * pi / 180, kept as the fraction of pi.
toRadians(deg) == [piNum |-> deg, piDen |-> 180]

\* point.fromPolar(angleInRadians, radius), for whole quarter turns.
fromPolar(rad, radius) ==
    LET quarter == (2 * rad.piNum) \div rad.piDen
    IN  << radius * cosDeg(90 * (quarter % 4)), radius * sinDeg(90 * (quarter % 4)) >>

\* path.move(pathToMove, origin) of a line held in the object store: the
\* end keeps its offset from the origin, the origin becomes the new one.
pathMove(objs, target, origin) ==
    LET line  == objs[target]
        delta == pointSubtract(line.end, line.origin)
    IN  [objs EXCEPT ![target] =
            Set(Set(line, "end", pointAdd(origin, delta)), "origin", origin)]

\* getNewOrigin(offsetAngle) of the Parallel constructor.
getNewOrigin(toLine, angleOfLine, distance, nearPoint, offsetAngle) ==
    LET origin == pointAdd(toLine.origin,
                           fromPolar(toRadians(angleOfLine + offsetAngle), distance))
    IN  [origin |-> origin, nearness |-> pointDistance(origin, nearPoint, "throw")]

\* The selection with "<=" in place of "<".
selectNewOriginLe(newOrigins) ==
    IF newOrigins[1].nearness <= newOrigins[2].nearness
    THEN newOrigins[1].origin ELSE newOrigins[2].origin

\* "var newOrigin = (newOrigins[0].nearness < newOrigins[1].nearness) ? ..."
selectNewOrigin(newOrigins) ==
    IF newOrigins[1].nearness < newOrigins[2].nearness
    THEN newOrigins[1].origin ELSE newOrigins[2].origin

\* The path the Parallel constructor moves, with toLine in place of this.
movedPathToLine == "toLine"

\* "path.move(this, newOrigin)": the path the Parallel constructor moves.
movedPath == "this"

\* The Parallel constructor, given (toLine, distance, nearPoint): the object
\* store it leaves, this included.
ParallelCtor(self, a, h) ==
    LET toLine == h[a[1].v]
        nearPoint == h[a[3].v]
        t == Set(Set(Set(self, "type", "Line"),
                     "origin", pointClone(toLine.origin)),
                 "end", pointClone(toLine.end))
        angleOfLine == ofLineInDegrees(t)
        newOrigins == << getNewOrigin(toLine, angleOfLine, a[2].v, nearPoint, -90),
                         getNewOrigin(toLine, angleOfLine, a[2].v, nearPoint, 90) >>
    IN  pathMove(("this" :> t) @@ h, movedPath, selectNewOrigin(newOrigins))

\* The BezierSeed constructor.
BezierSeedCtor(self, a) ==
    LET t == Set(self, "type", "BezierSeed")
    IN  CASE Len(a) = 1 ->
               LET points == a[1].v
                   o == Set(t, "origin", pointAt(points, 1))
               IN  IF Len(points) = 3
                   THEN Set(Set(o, "controls", <<points[2]>>), "end", points[3])
                   ELSE IF Len(points) = 4
                   THEN Set(Set(o, "controls", <<points[2], points[3]>>), "end", points[4])
                   ELSE Set(o, "end", pointAt(points, 2))
          [] Len(a) = 3 ->
               Set(Set(t, "controls", IF a[2].k = "arr" THEN a[2].v ELSE <<a[2].v>>),
                   "end", a[3].v)
          [] Len(a) = 4 ->
               Set(Set(t, "controls", <<a[2].v, a[3].v>>), "end", a[4].v)
          [] OTHER -> t

\* ------------------------------------------------------------------ inputs

\* Points of BezierSeed have coordinates in 0 .. BMax.
BMax == 1

BezPoints == {<<x, y>> : x \in 0 .. BMax, y \in 0 .. BMax}

\* Control sequences given to BezierSeed have at most MaxControls points.
MaxControls == 3

\* The angles given to Arc(origin, radius, startAngle, endAngle).
GivenAngles == {-90, 0, 180, 450}

DefaultEnv == [policy |-> "throw", swap |-> FALSE, thirdIsExclusive |-> TRUE]

Compass(o, p) == IsCompass(p[1] - o[1], p[2] - o[2])

SvgCenters(a, b, r) ==
    CirclePoints([origin |-> a, radius |-> r], [origin |-> b, radius |-> r])

\* The SVG-style inputs whose candidate centers and angles are exact.
SvgOk(a, b, r) ==
    /\ IntersectionOk(a, b, r)
    /\ \A c \in SvgCenters(a, b, r) : Compass(c, a) /\ Compass(c, b)

\* The three-point inputs whose bisectors, center and angles are exact.
ThreePointOk(a, b, c) ==
    /\ a # b /\ b # c
    /\ MidOk(a, b) /\ MidOk(b, c)
    /\ LET perp == circlePerpendiculars(<<Pt(a), Pt(b), Pt(c)>>)
           o == fromSlopeIntersection(perp[1], perp[2])
       IN  /\ SlopeOk(perp[1], perp[2])
           /\ o # NoPoint => Compass(o, a) /\ Compass(o, b) /\ Compass(o, c)

Collinear(a, b, c) ==
    LET perp == circlePerpendiculars(<<Pt(a), Pt(b), Pt(c)>>)
    IN  SlopeDen(perp[1], perp[2]) = 0

\* The two-point inputs whose center and angles are exact.
TwoPointOk(a, b) ==
    a # b /\ MidOk(a, b) /\ Compass(pointAverage(a, b), a)

\* The lines whose direction is a whole quarter turn.
AxisLine(o, e) == IF o = e THEN FALSE ELSE (o[1] = e[1] \/ o[2] = e[2]) = TRUE

SeqsOf(S, n) == [1 .. n -> S]

\* ------------------------------------------------------------------ actions

Init ==
    /\ pc = "idle"
    /\ op = "none"
    /\ args = <<>>
    /\ this = EmptyObj
    /\ env = DefaultEnv
    /\ heap = <<>>

Call(o, a, e, h) ==
    /\ pc = "idle"
    /\ pc' = "called"
    /\ op' = o
    /\ args' = a
    /\ this' = EmptyObj
    /\ env' = e
    /\ heap' = h

\* new Arc(pointA, pointB, radius, largeArc, clockwise)
CallArcSvg ==
    /\ pc = "idle"
    /\ \E a \in Points, b \in Points, r \in 1 .. RSqMax :
        /\ SvgOk(a, b, r)
        /\ \E largeArc \in BOOLEAN, clockwise \in BOOLEAN,
              sw \in (IF Cardinality(SvgCenters(a, b, r)) = 2 THEN BOOLEAN ELSE {FALSE}),
              pol \in (IF Cardinality(SvgCenters(a, b, r)) = 1 THEN Policies ELSE {"throw"}) :
            /\ (Cardinality(SvgCenters(a, b, r)) = 1 /\ pol = "zero")
                   => Compass(<<0, 0>>, a) /\ Compass(<<0, 0>>, b)
            /\ Call("Arc", <<Pt(a), Pt(b), Num(r), Bool(largeArc), Bool(clockwise)>>,
                    [DefaultEnv EXCEPT !.swap = sw, !.policy = pol], <<>>)

\* new Arc(origin, radius, startAngle, endAngle)
CallArcDirect ==
    /\ pc = "idle"
    /\ \E o \in Points, r \in 1 .. RSqMax, s \in GivenAngles, e \in GivenAngles :
        Call("Arc", <<Pt(o), Num(r), Num(s), Num(e)>>, DefaultEnv, <<>>)

\* new Arc(pointA, pointB, pointC)
CallArcThreePoints ==
    /\ pc = "idle"
    /\ \E a \in Points, b \in Points, c \in Points :
        /\ ThreePointOk(a, b, c)
        /\ \E pol \in (IF Collinear(a, b, c) THEN Policies ELSE {"throw"}),
              ex \in BOOLEAN :
            /\ (Collinear(a, b, c) /\ pol = "zero")
                   => /\ Compass(<<0, 0>>, a)
                      /\ Compass(<<0, 0>>, b)
                      /\ Compass(<<0, 0>>, c)
            /\ Call("Arc", <<Pt(a), Pt(b), Pt(c)>>,
                    [DefaultEnv EXCEPT !.policy = pol, !.thirdIsExclusive = ex], <<>>)

\* new Arc(pointA, pointB) and new Arc(pointA, pointB, clockwise)
CallArcTwoPoints ==
    /\ pc = "idle"
    /\ \E a \in Points, b \in Points :
        /\ TwoPointOk(a, b)
        /\ \E flag \in {<<>>, <<Bool(FALSE)>>, <<Bool(TRUE)>>} :
            Call("Arc", <<Pt(a), Pt(b)>> \o flag, DefaultEnv, <<>>)

\* new Arc(point): an argument count no case of the switch matches.
CallArcOther ==
    /\ pc = "idle"
    /\ \E a \in Points : Call("Arc", <<Pt(a)>>, DefaultEnv, <<>>)

\* new Circle(origin, radius), new Circle(pointA, pointB),
\* new Circle(pointA, pointB, pointC)
CallCircle ==
    /\ pc = "idle"
    /\ \/ \E o \in Points, r \in 1 .. RSqMax :
           Call("Circle", <<Pt(o), Num(r)>>, DefaultEnv, <<>>)
       \/ \E a \in Points, b \in Points :
           MidOk(a, b) /\ Call("Circle", <<Pt(a), Pt(b)>>, DefaultEnv, <<>>)
       \/ \E a \in Points, b \in Points, c \in Points, pol \in Policies :
           /\ ThreePointOk(a, b, c)
           /\ IF Collinear(a, b, c) THEN TRUE ELSE pol = "throw"
           /\ Call("Circle", <<Pt(a), Pt(b), Pt(c)>>,
                   [DefaultEnv EXCEPT !.policy = pol], <<>>)

\* new Parallel(toLine, distance, nearPoint)
CallParallel ==
    /\ pc = "idle"
    /\ \E o \in Points, e \in Points, d \in (0 - DMax) .. DMax, n \in Points :
        /\ AxisLine(o, e)
        /\ Call("Parallel", <<Ref("toLine"), Num(d), Ref("nearPoint")>>, DefaultEnv,
                [toLine |-> Line(o, e), nearPoint |-> n])

\* new BezierSeed(points), new BezierSeed(origin, control, end),
\* new BezierSeed(origin, controls, end),
\* new BezierSeed(origin, control1, control2, end)
CallBezierSeed ==
    /\ pc = "idle"
    /\ \/ \E n \in 2 .. 4 : \E points \in SeqsOf(BezPoints, n) :
           Call("BezierSeed", <<Arr(points)>>, DefaultEnv, <<>>)
       \/ \E o \in BezPoints, c \in BezPoints, e \in BezPoints :
           Call("BezierSeed", <<Pt(o), Pt(c), Pt(e)>>, DefaultEnv, <<>>)
       \/ \E o \in BezPoints, e \in BezPoints, n \in 0 .. MaxControls :
           \E cs \in SeqsOf(BezPoints, n) :
               Call("BezierSeed", <<Pt(o), Arr(cs), Pt(e)>>, DefaultEnv, <<>>)
       \/ \E o \in BezPoints, c1 \in BezPoints, c2 \in BezPoints, e \in BezPoints :
           Call("BezierSeed", <<Pt(o), Pt(c1), Pt(c2), Pt(e)>>, DefaultEnv, <<>>)

Finish(r) ==
    /\ pc' = (IF r.threw THEN "threw" ELSE "done")
    /\ this' = r.obj
    /\ UNCHANGED <<op, args, env, heap>>

\* The Arc constructor, case 5, with the tagging that follows the switch.
ArcNewSvg ==
    /\ pc = "called" /\ op = "Arc" /\ Len(args) = 5
    /\ LET r == ArcSvg(this, args, env)
       IN  Finish(IF r.threw THEN r ELSE Ret(ArcTag(r.obj), FALSE))

\* The Arc constructor, case 4, with the tagging that follows the switch.
ArcNewDirect ==
    /\ pc = "called" /\ op = "Arc" /\ Len(args) = 4
    /\ Finish(Ret(ArcTag(ArcDirect(this, args)), FALSE))

\* The Arc constructor when no case matches: only the tag is assigned.
ArcNewOther ==
    /\ pc = "called" /\ op = "Arc" /\ Len(args) \notin {2, 3, 4, 5}
    /\ Finish(Ret(ArcTag(this), FALSE))

\* The Arc constructor, cases 3 and 2, up to the return of Circle.apply /
\* Circle.call.
ArcCircle ==
    /\ pc = "called" /\ op = "Arc" /\ ArcUsesCircle(args)
    /\ LET r == CircleCtor(this, ArcCircleArgs(args), env.policy)
       IN  /\ pc' = (IF r.threw THEN "threw" ELSE "circled")
           /\ this' = r.obj
    /\ UNCHANGED <<op, args, env, heap>>

\* The Arc constructor, cases 3 and 2, from the return of the Circle
\* constructor to the end: the angles, then the tag.
ArcAngles ==
    /\ pc = "circled" /\ op = "Arc"
    /\ Finish(Ret(ArcTag(IF ArcIsThreePoints(args)
                         THEN ArcThreePointAngles(this, args, env)
                         ELSE ArcTwoPointAngles(this, args, env)), FALSE))

CircleNew ==
    /\ pc = "called" /\ op = "Circle"
    /\ Finish(CircleCtor(this, args, env.policy))

ParallelNew ==
    /\ pc = "called" /\ op = "Parallel"
    /\ LET objs == ParallelCtor(this, args, heap)
       IN  /\ this' = objs["this"]
           /\ heap' = [n \in DOMAIN heap |-> objs[n]]
    /\ pc' = "done"
    /\ UNCHANGED <<op, args, env>>

BezierSeedNew ==
    /\ pc = "called" /\ op = "BezierSeed"
    /\ Finish(Ret(BezierSeedCtor(this, args), FALSE))

\* The caller drops the result (or catches what was thrown) and goes on to
\* its next construction.
Return ==
    /\ pc \in {"done", "threw"}
    /\ pc' = "idle"
    /\ op' = "none"
    /\ args' = <<>>
    /\ this' = EmptyObj
    /\ env' = DefaultEnv
    /\ heap' = <<>>

NextArc ==
    \/ CallArcSvg
    \/ CallArcDirect
    \/ CallArcThreePoints
    \/ CallArcTwoPoints
    \/ CallArcOther
    \/ CallCircle
    \/ ArcNewSvg
    \/ ArcNewDirect
    \/ ArcNewOther
    \/ ArcCircle
    \/ ArcAngles
    \/ CircleNew
    \/ Return

NextParallel ==
    \/ CallParallel
    \/ ParallelNew
    \/ Return

NextBezierSeed ==
    \/ CallBezierSeed
    \/ BezierSeedNew
    \/ Return

Next == NextArc \/ NextParallel \/ NextBezierSeed

Spec == Init /\ [][Next]_vars

\* The constructions of Arc and Circle alone.
SpecArc == Init /\ [][NextArc]_vars

\* The constructions of Parallel alone.
SpecParallel == Init /\ [][NextParallel]_vars

\* The constructions of BezierSeed alone.
SpecBezierSeed == Init /\ [][NextBezierSeed]_vars

\* ------------------------------------------------------------------ claims

Returned(o) == pc = "done" /\ op = o

Ended(o) == pc \in {"done", "threw"} /\ op = o

IsNumber(obj, f) == Has(obj, f) /\ obj[f] # NaN

\* The SVG-style call at hand: its end points in the order the clockwise
\* flag gives them, and its candidate centers.
SvgCall == op = "Arc" /\ Len(args) = 5

SvgFirst == args[IF Truthy(args, 5) THEN 2 ELSE 1].v

SvgSecond == args[IF Truthy(args, 5) THEN 1 ELSE 2].v

SvgCandidates == SvgCenters(args[1].v, args[2].v, args[3].v)

\* The span, counter-clockwise from the first end point to the second, seen
\* from the center c.
SvgSpanFrom(c) ==
    ( angleOfVector(SvgSecond[1] - c[1], SvgSecond[2] - c[2])
    - angleOfVector(SvgFirst[1] - c[1], SvgFirst[2] - c[2]) ) % 360

\* C1: an SVG-style arc with two distinct candidate centers is centered at
\* one of them, spans at most 180 degrees when largeArc is false and at least
\* 180 degrees when it is true, whatever the clockwise flag, and the span it
\* takes is the smaller of the two candidates' spans for largeArc = false and
\* the larger for largeArc = true.
C1_SvgLargeArcSelectsSpan ==
    (Returned("Arc") /\ SvgCall /\ Cardinality(SvgCandidates) = 2) =>
        /\ IsNumber(this, "startAngle") /\ IsNumber(this, "endAngle")
        /\ this.origin \in SvgCandidates
        /\ this.endAngle - this.startAngle = SvgSpanFrom(this.origin)
        /\ IF Truthy(args, 4)
           THEN /\ this.endAngle - this.startAngle >= 180
                /\ \A c \in SvgCandidates :
                       SvgSpanFrom(c) <= this.endAngle - this.startAngle
           ELSE /\ this.endAngle - this.startAngle <= 180
                /\ \A c \in SvgCandidates :
                       SvgSpanFrom(c) >= this.endAngle - this.startAngle

C1_Witness ==
    /\ Returned("Arc") /\ SvgCall /\ Cardinality(SvgCandidates) = 2
    /\ Truthy(args, 4) /\ Truthy(args, 5) /\ env.swap
    /\ this.endAngle - this.startAngle = 270

\* C2: an SVG-style construction whose radius is too small for the chord
\* (the circles about the two end points do not meet) fails with an error: it
\* returns no Arc, let alone one without origin, startAngle or endAngle.
C2_SvgRadiusTooSmallFails ==
    (Ended("Arc") /\ SvgCall /\ 4 * args[3].v < DistSq(args[1].v, args[2].v)) =>
        pc = "threw"

\* The three points of the three-point call at hand and their angles seen
\* from the arc's center.
ThreePointCall ==
    /\ op = "Arc" /\ ArcIsThreePoints(args)
    /\ ~Collinear(args[1].v, args[2].v, args[3].v)

AngleFromCenter(i) ==
    angleOfVector(args[i].v[1] - this.origin[1], args[i].v[2] - this.origin[2])

\* Whether the through-point is met going counter-clockwise from A to C.
ThroughPointBetween ==
    (AngleFromCenter(2) - AngleFromCenter(1)) % 360
        < (AngleFromCenter(3) - AngleFromCenter(1)) % 360

\* C3: the arc through three non-collinear points A, B, C contains the angle
\* of B in its span from startAngle to endAngle; its angles are those of A
\* and C when B lies between them, and those of C and A exactly when not.
C3_ThreePointArcContainsThroughPoint ==
    (Returned("Arc") /\ ThreePointCall) =>
        /\ (AngleFromCenter(2) - this.startAngle) % 360
               <= (this.endAngle - this.startAngle) % 360
        /\ this.startAngle = AngleFromCenter(IF ThroughPointBetween THEN 1 ELSE 3)
        /\ this.endAngle = AngleFromCenter(IF ThroughPointBetween THEN 3 ELSE 1)

C3_Witness ==
    /\ Returned("Arc") /\ ThreePointCall
    /\ ~ThroughPointBetween
    /\ this.startAngle = AngleFromCenter(3)
    /\ this.startAngle > this.endAngle

\* The derived variants of Arc: two points, three points, SVG style.
DerivedArcCall == op = "Arc" /\ Len(args) \in {2, 3, 5}

\* C4 as claimed: every Arc of a derived variant has endAngle >= startAngle.
C4_DerivedArcAnglesOrdered ==
    ( /\ Returned("Arc") /\ DerivedArcCall
      /\ IsNumber(this, "startAngle") /\ IsNumber(this, "endAngle") ) =>
        this.endAngle >= this.startAngle

\* C4 as amended: an Arc of the SVG-style variant that carries a start and an
\* end angle has endAngle >= startAngle, with endAngle allowed to exceed 360
\* (but not 720); the two-point and three-point variants store the angles of
\* their points as computed.
C4_SvgArcAnglesOrdered ==
    ( /\ Returned("Arc") /\ SvgCall
      /\ IsNumber(this, "startAngle") /\ IsNumber(this, "endAngle") ) =>
        /\ this.endAngle >= this.startAngle
        /\ this.startAngle >= 0 /\ this.startAngle < 360
        /\ this.endAngle < this.startAngle + 360

C4_Witness ==
    /\ Returned("Arc") /\ SvgCall
    /\ IsNumber(this, "startAngle") /\ IsNumber(this, "endAngle")
    /\ this.endAngle > 360

\* The line, the offset and the near point of the Parallel call at hand, and
\* its two candidate origins: the offsets of toLine.origin by the distance
\* along the line's direction turned by -90 and by +90 degrees.
ParallelCall == op = "Parallel"

LineUnit ==
    LET l == heap["toLine"]
    IN  << Sgn(l.end[1] - l.origin[1]) * (IF l.end[1] = l.origin[1] THEN 0 ELSE 1),
           Sgn(l.end[2] - l.origin[2]) * (IF l.end[2] = l.origin[2] THEN 0 ELSE 1) >>

CandidateMinus90 ==
    << heap["toLine"].origin[1] + args[2].v * LineUnit[2],
       heap["toLine"].origin[2] - args[2].v * LineUnit[1] >>

CandidatePlus90 ==
    << heap["toLine"].origin[1] - args[2].v * LineUnit[2],
       heap["toLine"].origin[2] + args[2].v * LineUnit[1] >>

NearTie ==
    DistSq(CandidateMinus90, heap["nearPoint"]) = DistSq(CandidatePlus90, heap["nearPoint"])

\* C5 as claimed: on a tie the -90 degree candidate is the new origin,
\* otherwise the candidate strictly nearer to nearPoint.
C5_TieSelectsFirstCandidate ==
    (Returned("Parallel") /\ ParallelCall) =>
        this.origin =
            IF NearTie THEN CandidateMinus90
            ELSE IF DistSq(CandidateMinus90, heap["nearPoint"])
                      < DistSq(CandidatePlus90, heap["nearPoint"])
                 THEN CandidateMinus90 ELSE CandidatePlus90

\* C5 as amended: on a tie the second candidate (the +90 degree offset) is
\* the new origin; the -90 degree candidate is the new origin only when it
\* is strictly nearer to nearPoint, the +90 degree candidate otherwise.
C5_TieSelectsSecondCandidate ==
    (Returned("Parallel") /\ ParallelCall) =>
        /\ NearTie => this.origin = CandidatePlus90
        /\ this.origin =
               IF DistSq(CandidateMinus90, heap["nearPoint"])
                      < DistSq(CandidatePlus90, heap["nearPoint"])
               THEN CandidateMinus90 ELSE CandidatePlus90

C5_Witness ==
    /\ Returned("Parallel") /\ ParallelCall
    /\ NearTie
    /\ CandidateMinus90 # CandidatePlus90
    /\ this.origin = CandidatePlus90

\* The SVG-style call whose radius is exactly half the chord.
SvgTangent == SvgCall /\ 4 * args[3].v = DistSq(args[1].v, args[2].v)

SvgMid == pointAverage(args[1].v, args[2].v)

\* C7: an SVG-style construction whose radius is exactly half the distance
\* between the end points returns the arc about their midpoint (the single
\* candidate center) with a span of exactly 180 degrees, the same for
\* largeArc = false and largeArc = true.
C7_SvgTangentIsSemicircle ==
    (Ended("Arc") /\ SvgTangent) =>
        /\ pc = "done"
        /\ Has(this, "origin") /\ this.origin = SvgMid
        /\ this.startAngle = angleOfVector(SvgFirst[1] - SvgMid[1], SvgFirst[2] - SvgMid[2])
        /\ this.endAngle - this.startAngle = 180

\* The shapes of a BezierSeed call that give an origin, two controls and an
\* end, and the four points given.
CubicCall ==
    /\ op = "BezierSeed"
    /\ \/ Len(args) = 1 /\ Len(args[1].v) = 4
       \/ Len(args) = 3 /\ args[2].k = "arr" /\ Len(args[2].v) = 2
       \/ Len(args) = 4

CubicPoints ==
    CASE Len(args) = 1 -> args[1].v
      [] Len(args) = 3 -> <<args[1].v, args[2].v[1], args[2].v[2], args[3].v>>
      [] Len(args) = 4 -> <<args[1].v, args[2].v, args[3].v, args[4].v>>

\* C6: the seeds built from [O, C1, C2, E], from (O, [C1, C2], E) and from
\* (O, C1, C2, E) are identical field for field: origin = O,
\* controls = [C1, C2], end = E in each.
C6_CubicShapesAgree ==
    (Returned("BezierSeed") /\ CubicCall) =>
        /\ this = [type |-> "BezierSeed", origin |-> CubicPoints[1],
                   controls |-> <<CubicPoints[2], CubicPoints[3]>>,
                   end |-> CubicPoints[4]]
        /\ this = BezierSeedCtor(EmptyObj, <<Arr(CubicPoints)>>)

\* The recognized shapes of a BezierSeed call: a flat sequence of 2, 3 or 4
\* points; (origin, control, end); (origin, controls, end) with at most two
\* controls; (origin, control1, control2, end).
RecognizedSeedCall ==
    /\ op = "BezierSeed"
    /\ \/ Len(args) = 1 /\ Len(args[1].v) \in {2, 3, 4}
       \/ Len(args) = 3 /\ args[2].k = "pt"
       \/ Len(args) = 3 /\ args[2].k = "arr" /\ Len(args[2].v) <= 2
       \/ Len(args) = 4

\* C8: a seed of a recognized shape has a controls field that is a sequence
\* of 0, 1 or 2 points; a flat sequence of 2 points gives no controls.
C8_ControlsIsShortSequence ==
    (Returned("BezierSeed") /\ RecognizedSeedCall) =>
        /\ Has(this, "controls")
        /\ Len(this.controls) \in {0, 1, 2}
        /\ (Len(args) = 1 /\ Len(args[1].v) = 2) => this.controls = <<>>

\* C9: every value the Arc constructor returns carries the kind Arc; where
\* the Circle constructor ran on the object (two and three points) the
\* object carries the kind Circle when that step returns, and the Arc kind
\* is assigned after it.
C9_ReturnedArcIsTaggedArc ==
    /\ Returned("Arc") => Has(this, "type") /\ this.type = "Arc"
    /\ (op = "Arc" /\ pc = "circled") => this.type = "Circle"
    /\ (op = "Arc" /\ pc = "called") => ~Has(this, "type")

C9_Witness ==
    /\ Returned("Arc") /\ ThreePointCall
    /\ Has(this, "radius") /\ Has(this, "startAngle")
    /\ this.type = "Arc"

\* The step in which the Parallel constructor runs.
ParallelRuns == op = "Parallel" /\ pc = "called" /\ pc' = "done"

\* C10: the Parallel constructor leaves toLine and nearPoint as they were;
\* the object it moves is the Parallel under construction, which ends with
\* its origin at the chosen candidate and the same end - origin vector as
\* toLine.
C10_ParallelLeavesInputsUnchanged ==
    [][ ParallelRuns =>
          /\ heap' = heap
          /\ this'.origin \in {CandidateMinus90, CandidatePlus90}
          /\ pointSubtract(this'.end, this'.origin)
                 = pointSubtract(heap["toLine"].end, heap["toLine"].origin) ]_vars

C10_Witness ==
    /\ Returned("Parallel")
    /\ this.origin # heap["toLine"].origin
    /\ this.end # heap["toLine"].end
    /\ pointSubtract(this.end, this.origin)
           = pointSubtract(heap["toLine"].end, heap["toLine"].origin)

====
